---------------------------- MODULE Spec2Model ----------------------------
(***************************************************************************)
(* Model of the kaoliang storage gateway:                                  *)
(*   - the AWS Signature Version 4 verification engine (package cmd:       *)
(*     canonical request, string to sign, signing key, the header, the     *)
(*     presigned and the POST policy flows), reached through               *)
(*     CephBackend.GetUser of package config;                              *)
(*   - the NFS export list maintenance of package controllers.             *)
(*                                                                         *)
(* Strings are sequences of character codes (ASCII), so that lower-casing, *)
(* sorting, trimming, splitting and escaping are computed, not assumed.    *)
(* SHA-256 and HMAC-SHA256 are free (injective) constructors.              *)
(***************************************************************************)
EXTENDS Integers, Sequences, FiniteSets, TLC

VARIABLES
    cIn,        \* SpecCanon: the http.Header handed to the canonical request builder
    cOut,       \* SpecCanon: what the builder returned
    cpc,        \* SpecCanon: "input" | "done"
    env,        \* the process environment: RGW_REGION, SERVICE, globalMaxSkewTime
    now,        \* the last value UTCNow() returned
    sent,       \* the request as its client signed it, and the scope it signed under
    req,        \* the request as received
    pc,         \* the position of the verification call
    outcome,    \* "running" | "Accepted" | "Rejected" | "Panicked"
    userID,     \* the named result userID
    s3Error,    \* the named result s3Error
    signValues, \* signV4Values / pSignValues
    cred,       \* the auth.Credentials getCredentials returned
    extractedSignedHeaders,
    query,      \* the query the presigned flow reconstructs
    t,          \* the signing time
    nowSkew,    \* the clock value the "not ready yet" check read
    nowExpiry,  \* the clock value the expiry check read
    canonicalRequest,
    newSignature,
    formValues, \* SpecPolicy: the POST form handed to doesPolicySignatureMatch
    polRoute,   \* SpecPolicy: the flow the form was handed to, "V2" | "V4"
    polErr,     \* SpecPolicy: the APIErrorCode returned
    polpc,      \* SpecPolicy: "called" | "done"
    exportList, \* SpecExport: the content of the export list object, by entry
    exportObjs, \* SpecExport: the users whose export object exists
    locks,      \* SpecExport: the holder of each lock of the export list object, or 0
    procs,      \* SpecExport: the call each goroutine is in
    expected    \* SpecExport: the users added and not removed by the calls that returned

canonVars == <<cIn, cOut, cpc>>

authVars == <<env, now, sent, req, pc, outcome, userID, s3Error, signValues, cred,
              extractedSignedHeaders, query, t, nowSkew, nowExpiry, canonicalRequest,
              newSignature>>

policyVars == <<formValues, polRoute, polErr, polpc>>

exportVars == <<exportList, exportObjs, locks, procs, expected>>

\* the variables the verification call leaves alone
notAuth == <<canonVars, policyVars, exportVars>>

\* the variables the canonical request builder leaves alone
notCanon == <<authVars, policyVars, exportVars>>

\* the variables the POST policy check leaves alone
notPolicy == <<canonVars, authVars, exportVars>>

\* the variables the export list maintenance leaves alone
notExport == <<canonVars, authVars, policyVars>>

vars == <<canonVars, authVars, policyVars, exportVars>>

---------------------------------------------------------------------------
(* Strings *)

Min(a, b) == IF a < b THEN a ELSE b

SetMax(S) == CHOOSE x \in S : \A y \in S : y <= x

\* unicode.ToLower on one ASCII character
ToLowerCh(c) == IF c >= 65 /\ c <= 90 THEN c + 32 ELSE c

\* strings.ToLower
ToLower(s) == [i \in 1..Len(s) |-> ToLowerCh(s[i])]

\* Go's string order: byte-wise lexicographic, a proper prefix first
StrLess(a, b) ==
    LET n == Min(Len(a), Len(b)) IN
    \E i \in 1..(n + 1) :
        /\ \A j \in 1..(i - 1) : a[j] = b[j]
        /\ \/ (i <= n /\ a[i] < b[i])
           \/ (i = n + 1 /\ Len(a) < Len(b))

RECURSIVE InsertSorted(_, _)
InsertSorted(x, s) ==
    IF s = <<>> THEN <<x>>
    ELSE IF StrLess(Head(s), x) THEN <<Head(s)>> \o InsertSorted(x, Tail(s))
    ELSE <<x>> \o s

\* sort.Strings
RECURSIVE SortStrings(_)
SortStrings(s) ==
    IF s = <<>> THEN <<>> ELSE InsertSorted(Head(s), SortStrings(Tail(s)))

\* strings.Join
RECURSIVE Join(_, _)
Join(ss, sep) ==
    IF ss = <<>> THEN <<>>
    ELSE IF Len(ss) = 1 THEN ss[1]
    ELSE ss[1] \o sep \o Join(Tail(ss), sep)

\* the concatenation of a sequence of strings (bytes.Buffer writes),
\* computed by halves
RECURSIVE Concat(_)
Concat(ss) ==
    IF Len(ss) = 0 THEN <<>>
    ELSE IF Len(ss) = 1 THEN ss[1]
    ELSE Concat(SubSeq(ss, 1, Len(ss) \div 2)) \o Concat(SubSeq(ss, (Len(ss) \div 2) + 1, Len(ss)))

IsSpace(c) == c \in {9, 10, 11, 12, 13, 32}

\* the elements of a finite set of integers in increasing order
Ascending(P) ==
    [k \in 1..Cardinality(P) |-> CHOOSE i \in P : Cardinality({j \in P : j < i}) = k - 1]

\* strings.Fields: the maximal runs of non-space characters
Fields(s) ==
    LET starts == Ascending({ i \in 1..Len(s) :
                                ~IsSpace(s[i]) /\ (i = 1 \/ IsSpace(s[i - 1])) })
        End(i) == CHOOSE j \in i..Len(s) :
                     /\ \A x \in i..j : ~IsSpace(s[x])
                     /\ (j = Len(s) \/ IsSpace(s[j + 1]))
    IN [k \in 1..Len(starts) |-> SubSeq(s, starts[k], End(starts[k]))]

\* signV4TrimAll: leading and trailing spaces removed, inner runs collapsed
signV4TrimAll(input) == Join(Fields(input), <<32>>)

\* strings.Split on a one-character separator
Split(s, sep) ==
    LET at == Ascending({ i \in 1..Len(s) : s[i] = sep })
        n == Len(at)
    IN [k \in 1..(n + 1) |->
          SubSeq(s, IF k = 1 THEN 1 ELSE at[k - 1] + 1,
                    IF k = n + 1 THEN Len(s) ELSE at[k] - 1)]

\* strings.HasPrefix
HasPrefix(s, p) == Len(s) >= Len(p) /\ SubSeq(s, 1, Len(p)) = p

\* strings.Replace(s, "+", "%20", -1)
ReplacePlus(s) ==
    Concat([i \in 1..Len(s) |-> IF s[i] = 43 THEN <<37, 50, 48>> ELSE <<s[i]>>])

\* the orders in which a Go map with these keys may be ranged over
RECURSIVE Orders(_)
Orders(S) ==
    IF S = {} THEN { <<>> }
    ELSE UNION { { <<x>> \o o : o \in Orders(S \ {x}) } : x \in S }

\* the strings of a set in Go's string order
RECURSIVE SortedKeys(_)
SortedKeys(S) ==
    IF S = {} THEN <<>>
    ELSE LET m == CHOOSE x \in S : \A y \in S \ {x} : StrLess(x, y)
         IN <<m>> \o SortedKeys(S \ {m})

---------------------------------------------------------------------------
(* Signature Version 4: canonical request *)

\* getCanonicalHeaders; order is the order in which the range over the
\* map signedHeaders visits its keys
getCanonicalHeadersUnsorted(signedHeaders, order) ==
    LET headers == [i \in 1..Len(order) |-> ToLower(order[i])]
        vals == [k \in {headers[i] : i \in 1..Len(headers)} |->
                    signedHeaders[order[SetMax({i \in 1..Len(order) : headers[i] = k})]]]
        Line(k) == k \o <<58>>
                     \o Join([i \in 1..Len(vals[k]) |-> signV4TrimAll(vals[k][i])], <<44>>)
                     \o <<10>>
    IN Concat([i \in 1..Len(headers) |-> Line(headers[i])])

getCanonicalHeaders(signedHeaders, order) ==
    LET headers == [i \in 1..Len(order) |-> ToLower(order[i])]
        vals == [k \in {headers[i] : i \in 1..Len(headers)} |->
                    signedHeaders[order[SetMax({i \in 1..Len(order) : headers[i] = k})]]]
        sorted == SortStrings(headers)
        Line(k) == k \o <<58>>
                     \o Join([i \in 1..Len(vals[k]) |-> signV4TrimAll(vals[k][i])], <<44>>)
                     \o <<10>>
    IN Concat([i \in 1..Len(sorted) |-> Line(sorted[i])])

\* getSignedHeaders
getSignedHeaders(signedHeaders, order) ==
    LET headers == [i \in 1..Len(order) |-> ToLower(order[i])]
    IN Join(SortStrings(headers), <<59>>)

\* one hexadecimal digit, upper case
HexDigit(n) == IF n < 10 THEN 48 + n ELSE 55 + n

\* "%XX"
PercentHex(c) == <<37, HexDigit(c \div 16), HexDigit(c % 16)>>

\* letters, digits and - _ . ~
IsUnreserved(c) ==
    \/ (c >= 65 /\ c <= 90) \/ (c >= 97 /\ c <= 122) \/ (c >= 48 /\ c <= 57)
    \/ c \in {45, 95, 46, 126}

\* s3utils.EncodePath: unreserved characters and "/" are kept, every other
\* character is percent-encoded
EncodePath(urlPath) ==
    Concat([i \in 1..Len(urlPath) |->
              IF IsUnreserved(urlPath[i]) \/ urlPath[i] = 47
              THEN <<urlPath[i]>> ELSE PercentHex(urlPath[i])])

\* url.QueryEscape: a space becomes "+", every other reserved character
\* is percent-encoded
QueryEscape(s) ==
    Concat([i \in 1..Len(s) |->
              IF IsUnreserved(s[i]) THEN <<s[i]>>
              ELSE IF s[i] = 32 THEN <<43>>
              ELSE PercentHex(s[i])])

\* url.Values.Encode: "k=v" pairs joined by "&", sorted by key, the values
\* of a key in their order
Encode(values) ==
    LET keys == SortedKeys(DOMAIN values)
        Pairs(k) == [i \in 1..Len(values[k]) |->
                        QueryEscape(k) \o <<61>> \o QueryEscape(values[k][i])]
    IN Join(Concat([i \in 1..Len(keys) |-> Pairs(keys[i])]), <<38>>)

\* http.Header.Get and url.Values.Get: the first value of the key, or ""
Get(m, key) ==
    IF key \in DOMAIN m /\ Len(m[key]) > 0 THEN m[key][1] ELSE <<>>

\* url.Values.Set and http.Header.Set
Set(m, key, value) ==
    [k \in DOMAIN m \cup {key} |-> IF k = key THEN <<value>> ELSE m[k]]

\* http.CanonicalHeaderKey: the first letter and every letter after "-"
\* in upper case, the others in lower case
CanonicalHeaderKey(s) ==
    [i \in 1..Len(s) |->
        IF i = 1 \/ s[i - 1] = 45
        THEN (IF s[i] >= 97 /\ s[i] <= 122 THEN s[i] - 32 ELSE s[i])
        ELSE ToLowerCh(s[i])]

\* a canonical request that leaves the payload hash out
getCanonicalRequestNoPayload(signedHeaders, order1, order2, payload, queryStr, urlPath, method) ==
    LET rawQuery == ReplacePlus(queryStr)
        encodedPath == EncodePath(urlPath)
    IN Join(<< method,
               encodedPath,
               rawQuery,
               getCanonicalHeaders(signedHeaders, order1),
               getSignedHeaders(signedHeaders, order2) >>, <<10>>)

\* getCanonicalRequest; order1 and order2 are the orders of the two ranges
\* over the map
getCanonicalRequest(signedHeaders, order1, order2, payload, queryStr, urlPath, method) ==
    LET rawQuery == ReplacePlus(queryStr)
        encodedPath == EncodePath(urlPath)
    IN Join(<< method,
               encodedPath,
               rawQuery,
               getCanonicalHeaders(signedHeaders, order1),
               getSignedHeaders(signedHeaders, order2),
               payload >>, <<10>>)

---------------------------------------------------------------------------
(* Signature Version 4: time, scope, string to sign, signing key *)

\* the clock ticks of one calendar day
DayLen == 2

\* "AWS4-HMAC-SHA256"
signV4Algorithm == <<65, 87, 83, 52, 45, 72, 77, 65, 67, 45, 83, 72, 65, 50, 53, 54>>

\* "aws4_request"
Aws4Request == <<97, 119, 115, 52, 95, 114, 101, 113, 117, 101, 115, 116>>

IsDigit(c) == c >= 48 /\ c <= 57

\* two decimal digits
TwoDigits(n) == <<48 + ((n \div 10) % 10), 48 + (n % 10)>>

\* t.Format(yyyymmdd): the day of t, in digits
FormatDate(time) == TwoDigits(time \div DayLen)

\* t.Format(iso8601Format): the day, "T", the time of day, "Z"
FormatISO8601(time) == FormatDate(time) \o <<84, 48 + (time % DayLen), 90>>

\* time.Parse(yyyymmdd, s): the time, or -1 for an error
ParseDate(s) ==
    IF Len(s) = 2 /\ IsDigit(s[1]) /\ IsDigit(s[2])
    THEN ((s[1] - 48) * 10 + (s[2] - 48)) * DayLen
    ELSE -1

\* time.Parse(iso8601Format, s): the time, or -1 for an error. As in Go, a
\* fractional second after the seconds is accepted though the layout has
\* none (here ".0").
ParseISO8601(s) ==
    LET Core(x) == /\ IsDigit(x[1]) /\ IsDigit(x[2]) /\ x[3] = 84
                   /\ IsDigit(x[4]) /\ x[4] - 48 < DayLen
        Value(x) == ((x[1] - 48) * 10 + (x[2] - 48)) * DayLen + (x[4] - 48)
    IN IF Len(s) = 5 /\ Core(s) /\ s[5] = 90 THEN Value(s)
       ELSE IF Len(s) = 7 /\ Core(s) /\ s[5] = 46 /\ s[6] = 48 /\ s[7] = 90 THEN Value(s)
       ELSE -1

\* strconv.Itoa on 0..99
Itoa(n) == IF n < 10 THEN <<48 + n>> ELSE TwoDigits(n)

\* time.ParseDuration(s + "s") in seconds: one or two digits, or -1
ParseSeconds(s) ==
    IF Len(s) = 1 /\ IsDigit(s[1]) THEN s[1] - 48
    ELSE IF Len(s) = 2 /\ IsDigit(s[1]) /\ IsDigit(s[2]) THEN (s[1] - 48) * 10 + (s[2] - 48)
    ELSE -1

\* hex.EncodeToString(sha256.Sum256(data)), injective
Sha256Hex(data) == [sha256 |-> data]

\* sumHMAC(key, data), injective
sumHMAC(key, data) == [hmacKey |-> key, hmacData |-> data]

\* utils.GetEnv("SERVICE", "s3")
GetEnvSERVICE == env.SERVICE

\* getScope
getScope(time, region) ==
    Join(<<FormatDate(time), region, GetEnvSERVICE, Aws4Request>>, <<47>>)

\* credentialHeader.getScope: date/region/service/aws4_request of the
\* parsed credential
credGetScope(c) ==
    Join(<<FormatDate(c.scope.date), c.scope.region, c.scope.service, c.scope.request>>, <<47>>)

\* getStringToSign: the text up to the hash, and the hash of the canonical
\* request
getStringToSign(canonReq, time, scope) ==
    [ text |-> signV4Algorithm \o <<10>> \o FormatISO8601(time) \o <<10>> \o scope \o <<10>>,
      hash |-> Sha256Hex(canonReq) ]

\* the four-stage HMAC chain of getSigningKey with the service given
SigningKeyFor(secretKey, date, region, service) ==
    sumHMAC(sumHMAC(sumHMAC(sumHMAC(<<65, 87, 83, 52>> \o secretKey, date), region),
                    service), Aws4Request)

\* getSigningKey
getSigningKey(secretKey, time, region) ==
    SigningKeyFor(secretKey, FormatDate(time), region, GetEnvSERVICE)

\* getSignature
getSignature(signingKey, stringToSign) == [hex |-> sumHMAC(signingKey, stringToSign)]

\* compareSignatureV4
compareSignatureV4(sig1, sig2) == sig1 = sig2

---------------------------------------------------------------------------
(* Signature Version 4: parsers *)

\* "Credential="
CredentialTag == <<67, 114, 101, 100, 101, 110, 116, 105, 97, 108, 61>>

NoCredential ==
    [ accessKey |-> <<>>,
      scope |-> [date |-> -1, region |-> <<>>, service |-> <<>>, request |-> <<>>] ]

\* parseCredentialHeader: "Credential=" accessKey/date/region/service/aws4_request
parseCredentialHeader(credElement, region) ==
    IF ~HasPrefix(credElement, CredentialTag)
    THEN [err |-> "ErrMissingCredTag", cred |-> NoCredential]
    ELSE LET el == Split(SubSeq(credElement, Len(CredentialTag) + 1, Len(credElement)), 47)
         IN IF Len(el) # 5 \/ el[Len(el)] # Aws4Request
            THEN [err |-> "ErrCredMalformed", cred |-> NoCredential]
            ELSE IF ParseDate(el[2]) < 0
            THEN [err |-> "ErrMalformedDate", cred |-> NoCredential]
            ELSE [ err |-> "ErrNone",
                   cred |-> [ accessKey |-> el[1],
                              scope |-> [ date |-> ParseDate(el[2]), region |-> el[3],
                                          service |-> el[4], request |-> el[5] ] ] ]

\* a sequence without its repeated elements, the first occurrences kept
RECURSIVE Dedup(_)
Dedup(s) ==
    IF s = <<>> THEN <<>>
    ELSE LET r == Dedup(SubSeq(s, 1, Len(s) - 1))
         IN IF \E i \in 1..Len(r) : r[i] = s[Len(s)] THEN r ELSE Append(r, s[Len(s)])

\* parseSignedHeader: the names between ";", lower-cased, each once
parseSignedHeader(signedHdrElement) ==
    IF signedHdrElement = <<>>
    THEN [err |-> "ErrMissingFields", names |-> <<>>]
    ELSE LET el == Split(signedHdrElement, 59)
         IN [err |-> "ErrNone", names |-> Dedup([i \in 1..Len(el) |-> ToLower(el[i])])]

\* "host"
HostName == <<104, 111, 115, 116>>

\* the headers of the request by canonical key, with the synthesized Host
LiveHeaders(r) == Set(r.Header, CanonicalHeaderKey(HostName), r.Host)

\* extractSignedHeaders: the declared headers with the values the request
\* carries for them; a declared header the request does not carry is an
\* error
extractSignedHeaders(signedHeaders, r) ==
    LET live == LiveHeaders(r)
        keys == { CanonicalHeaderKey(signedHeaders[i]) : i \in 1..Len(signedHeaders) }
    IN IF \A k \in keys : k \in DOMAIN live
       THEN [err |-> "ErrNone", headers |-> [k \in keys |-> live[k]]]
       ELSE [err |-> "ErrUnsignedHeaders", headers |-> <<>>]

---------------------------------------------------------------------------
(* SpecCanon: the canonical request builder applied to every header map   *)
(* of the bounds                                                           *)

MaxHeaders == 3

\* "a", "ab", "b", "c"
LowerNames == { <<97>>, <<97, 98>>, <<98>>, <<99>> }

\* the spellings of a name: lower case, as a client writes it, and with
\* a capital first letter, as http.Header keeps it
CaseVariants(n) == { n, CanonicalHeaderKey(n) }

\* the value lists of a header: " v  w " ; "w", "v"
HeaderValues == { << <<32, 118, 32, 32, 119, 32>> >>,
                  << <<119>>, <<118>> >> }

\* the header maps whose keys differ in more than letter case
HeaderMaps ==
    UNION { { h \in [K -> HeaderValues] : TRUE } :
            K \in { K0 \in SUBSET (UNION { CaseVariants(n) : n \in LowerNames }) :
                      /\ K0 # {}
                      /\ Cardinality(K0) <= MaxHeaders
                      /\ \A x, y \in K0 : ToLower(x) = ToLower(y) => x = y } }

\* "GET", "/b/k", "a=1", "h0"
CanonMethod  == <<71, 69, 84>>
CanonPath    == <<47, 98, 47, 107>>
CanonQuery   == <<97, 61, 49>>
CanonPayload == <<104, 48>>

CanonInit ==
    /\ cIn \in HeaderMaps
    /\ cOut = <<>>
    /\ cpc = "input"

\* one call of getCanonicalRequest (which calls getCanonicalHeaders and
\* getSignedHeaders), the map ranged over in any order
CanonBuild ==
    /\ cpc = "input"
    /\ \E o1, o2 \in Orders(DOMAIN cIn) :
         cOut' = [ canonicalHeaders |-> getCanonicalHeaders(cIn, o1),
                   signedHeaders    |-> getSignedHeaders(cIn, o2),
                   canonicalRequest |-> getCanonicalRequest(cIn, o1, o2, CanonPayload,
                                                            CanonQuery, CanonPath, CanonMethod) ]
    /\ cpc' = "done"
    /\ UNCHANGED <<notCanon, cIn>>

CanonNext == CanonBuild

---------------------------------------------------------------------------
(* The credential store, the server configuration and the requests *)

MaxSkew == 1
MaxNow == 3
MaxExpires == 1

\* "us-east-1", "eu-west-1"
Regions == { <<117, 115, 45, 101, 97, 115, 116, 45, 49>>, <<101, 117, 45, 119, 101, 115, 116, 45, 49>> }

\* "s3", "iam"
Services == { <<115, 51>>, <<105, 97, 109>> }

\* "AK1" and "AK2" are keys of the store, "AKX" is not
AK1 == <<65, 75, 49>>
AK2 == <<65, 75, 50>>
AKX == <<65, 75, 88>>

\* the users.keys objects of the RGW metadata pool and the keys
\* radosgw-admin reports: access key -> user and secret key
Users ==
    [ k \in {AK1, AK2} |->
        IF k = AK1 THEN [userID |-> "alice", SecretKey |-> <<112, 49>>]
        ELSE [userID |-> "bob", SecretKey |-> <<112, 50>>] ]

\* getCredentials: the Stat of an unknown key fails, its error is dropped,
\* and make([]byte, stat.Size-4) with Size 0 panics; no path returns an
\* error code
getCredentials(accessKey) ==
    IF accessKey \in DOMAIN Users
    THEN [ panic |-> FALSE, userID |-> Users[accessKey].userID,
           cred |-> [AccessKey |-> accessKey, SecretKey |-> Users[accessKey].SecretKey],
           err |-> "ErrNone" ]
    ELSE [ panic |-> TRUE, userID |-> "",
           cred |-> [AccessKey |-> <<>>, SecretKey |-> <<>>], err |-> "ErrNone" ]

\* the region CephBackend.GetUser hands to ReqSignatureV4Verify
GetUserRegion == <<117, 115, 45, 101, 97, 115, 116, 45, 49>>

\* header keys and query keys
XAmzDateHeader == <<88, 45, 65, 109, 122, 45, 68, 97, 116, 101>>
DateHeader == <<68, 97, 116, 101>>
QAlgorithm == <<88, 45, 65, 109, 122, 45, 65, 108, 103, 111, 114, 105, 116, 104, 109>>
QCredential == <<88, 45, 65, 109, 122, 45, 67, 114, 101, 100, 101, 110, 116, 105, 97, 108>>
QDate == <<88, 45, 65, 109, 122, 45, 68, 97, 116, 101>>
QExpires == <<88, 45, 65, 109, 122, 45, 69, 120, 112, 105, 114, 101, 115>>
QSignedHeaders == <<88, 45, 65, 109, 122, 45, 83, 105, 103, 110, 101, 100, 72, 101, 97, 100, 101, 114, 115>>
QContentSha256 == <<88, 45, 65, 109, 122, 45, 67, 111, 110, 116, 101, 110, 116, 45, 83, 104, 97, 50, 53, 54>>
QPrefix == <<112, 114, 101, 102, 105, 120>>

\* accessKey/date/region/service/aws4_request
CredentialText(accessKey, date, region, service) ==
    Join(<<accessKey, date, region, service, Aws4Request>>, <<47>>)

\* the signature of a request that carries none
NoSignature ==
    getSignature(SigningKeyFor(<<>>, <<>>, <<>>, <<>>), getStringToSign(<<>>, 0, <<>>))

NoAuthorization ==
    [present |-> FALSE, Credential |-> <<>>, SignedHeaders |-> <<>>, Signature |-> NoSignature]

\* The signature a client computes for request r at time signTime under
\* its own scope (date of signTime, region, service) with the secret of
\* its access key: the protocol's pipeline over the request as the client
\* sends it.
ClientSignature(r, accessKey, signTime, region, service, names, signedQuery) ==
    LET hdrs == extractSignedHeaders(names, r).headers
        ord == CHOOSE o \in Orders(DOMAIN hdrs) : TRUE
        creq == getCanonicalRequest(hdrs, ord, ord, r.hashedPayload, Encode(signedQuery),
                                    r.Path, r.Method)
        scope == Join(<<FormatDate(signTime), region, service, Aws4Request>>, <<47>>)
    IN getSignature(SigningKeyFor(Users[accessKey].SecretKey, FormatDate(signTime),
                                  region, service),
                    getStringToSign(creq, signTime, scope))

\* a request with an Authorization header, signed at signTime; the date
\* travels in X-Amz-Date (dateIn = "x") or in Date (dateIn = "d")
HeaderRequest(signTime, region, service, names, dateIn) ==
    LET r0 == [ Method |-> <<71, 69, 84>>, Path |-> <<47, 98, 32, 107>>, Host |-> <<104>>,
                Header |-> [k \in { IF dateIn = "x" THEN XAmzDateHeader ELSE DateHeader, <<65>> } |->
                              IF k = <<65>> THEN << <<118, 44, 119>> >> ELSE << FormatISO8601(signTime) >>],
                Authorization |-> NoAuthorization,
                Query |-> [k \in {QPrefix} |-> << <<112, 32, 113>> >>],
                QuerySig |-> NoSignature,
                hashedPayload |-> <<104, 48>> ]
    IN [r0 EXCEPT !.Authorization =
          [ present |-> TRUE,
            Credential |-> CredentialTag \o CredentialText(AK1, FormatDate(signTime), region, service),
            SignedHeaders |-> Join(names, <<59>>),
            Signature |-> ClientSignature(r0, AK1, signTime, region, service, names, r0.Query) ]]

\* a presigned request, signed at signTime for expires seconds, with or
\* without X-Amz-Content-Sha256. Query holds every query parameter but
\* X-Amz-Signature, which QuerySig holds.
PresignedRequest(signTime, expires, region, service, names, withSha) ==
    LET keys == {QAlgorithm, QCredential, QDate, QExpires, QSignedHeaders, QPrefix}
                  \cup (IF withSha THEN {QContentSha256} ELSE {})
        q == [k \in keys |->
                IF k = QAlgorithm THEN << signV4Algorithm >>
                ELSE IF k = QCredential
                     THEN << CredentialText(AK1, FormatDate(signTime), region, service) >>
                ELSE IF k = QDate THEN << FormatISO8601(signTime) >>
                ELSE IF k = QExpires THEN << Itoa(expires) >>
                ELSE IF k = QSignedHeaders THEN << Join(names, <<59>>) >>
                ELSE IF k = QContentSha256 THEN << <<104, 48>> >>
                ELSE << <<112, 32, 113>> >>]
        r0 == [ Method |-> <<71, 69, 84>>, Path |-> <<47, 98, 32, 107>>, Host |-> <<104>>,
                Header |-> [k \in { <<65>> } |-> << <<118, 44, 119>> >>],
                Authorization |-> NoAuthorization,
                Query |-> q,
                QuerySig |-> NoSignature,
                hashedPayload |-> <<104, 48>> ]
    IN [r0 EXCEPT !.QuerySig = ClientSignature(r0, AK1, signTime, region, service, names, q)]

\* the signed header lists clients use, in alphabetical order: "host" ;
\* "a", "host" ; and, with the date in X-Amz-Date, "host", "x-amz-date"
HostOnly == << HostName >>
HostAndA == << <<97>>, HostName >>
HostAndDate == << HostName, <<120, 45, 97, 109, 122, 45, 100, 97, 116, 101>> >>

\* the requests clients sign, each with the parameters it was signed with
SignedRequests ==
    { [ flow |-> "header", signTime |-> 1, expires |-> 0, region |-> GetUserRegion,
        service |-> sv, names |-> nd[1],
        req |-> HeaderRequest(1, GetUserRegion, sv, nd[1], nd[2]) ] :
        sv \in Services,
        nd \in { <<HostOnly, "x">>, <<HostOnly, "d">>, <<HostAndA, "x">>, <<HostAndDate, "x">> } }
    \cup
    { [ flow |-> "presigned", signTime |-> st, expires |-> ex, region |-> GetUserRegion,
        service |-> sv, names |-> nm,
        req |-> PresignedRequest(st, ex, GetUserRegion, sv, nm, sha) ] :
        st \in {1}, ex \in 0..MaxExpires, sv \in Services,
        nm \in {HostOnly, HostAndA}, sha \in BOOLEAN }

\* a map without a key, and with a key bound to a list of values
Without(m, key) == [k \in DOMAIN m \ {key} |-> m[k]]
Put(m, key, values) == [k \in DOMAIN m \cup {key} |-> IF k = key THEN values ELSE m[k]]

\* the credentials a request may claim instead of the one it was signed
\* with: another key of the store, a key the store does not hold, another
\* date, region or service, a date that does not parse, four segments
OtherCredentials(s) ==
    LET d == FormatDate(s.signTime) IN
    { CredentialText(AK2, d, s.region, s.service),
      CredentialText(AKX, d, s.region, s.service),
      CredentialText(AK1, FormatDate(s.signTime + DayLen), s.region, s.service),
      CredentialText(AK1, <<122, 122>>, s.region, s.service),
      Join(<<AK1, d, s.region, Aws4Request>>, <<47>>) }
    \cup { CredentialText(AK1, d, rg, s.service) : rg \in Regions \ {s.region} }
    \cup { CredentialText(AK1, d, s.region, sv) : sv \in Services \ {s.service} }

\* the same request signed with the secret of another user
ForgedSignature(s) ==
    ClientSignature(s.req, AK2, s.signTime, s.region, s.service, s.names,
                    s.req.Query)

\* the values a request may carry for header A instead of "v,w": the same
\* text as two values, the same text with spaces around it, another text
OtherAValues == { << <<118>>, <<119>> >>, << <<32, 118, 44, 119, 32, 32>> >>, << <<119>> >> }

\* the texts a request may carry as its signed header list instead of
\* the client's: other letter case, other order, a name twice, a header
\* the request does not carry, nothing
OtherSignedHeaderTexts(s) ==
    { <<72, 111, 115, 116>>, <<104, 111, 115, 116, 59, 104, 111, 115, 116>>, <<104, 111, 115, 116, 59, 98>>, <<>> }
    \cup (IF s.names = HostAndA THEN { <<104, 111, 115, 116, 59, 97>>, <<65, 59, 104, 111, 115, 116>> } ELSE {})

\* what the two date headers of a request may hold: [x, d], each a list of
\* values, or <<>> for a header the request does not carry
DateHeaderValues(s) ==
    { [x |-> x, d |-> d] :
        x \in { <<>>, << <<>> >>, << FormatISO8601(s.signTime) >>,
                << FormatISO8601(s.signTime + 1) >>, << <<122, 122>> >> },
        d \in { <<>>, << FormatISO8601(s.signTime) >>, << <<122, 122>> >> } }

WithDateHeaders(r, v) ==
    LET h0 == Without(Without(r.Header, XAmzDateHeader), DateHeader)
        h1 == IF v.x = <<>> THEN h0 ELSE Put(h0, XAmzDateHeader, v.x)
        h2 == IF v.d = <<>> THEN h1 ELSE Put(h1, DateHeader, v.d)
    IN [r EXCEPT !.Header = h2]

\* the requests that differ from a signed request in one place
Tampered(s) ==
    LET r == s.req IN
    { [r EXCEPT !.Header = Put(r.Header, <<65>>, v)] : v \in OtherAValues }
    \cup { [r EXCEPT !.Host = <<103>>] }
    \cup { [r EXCEPT !.hashedPayload = <<104, 49>>] }
    \cup { [r EXCEPT !.Query = Put(r.Query, QPrefix, v)] :
             v \in { << <<114>> >>, << <<112, 32, 113>>, <<114>> >> } }
    \cup { [r EXCEPT !.Query = Without(r.Query, QPrefix)] }
    \cup (IF s.flow = "header"
          THEN { [r EXCEPT !.Authorization.Credential = CredentialTag \o c] :
                   c \in OtherCredentials(s) }
               \cup { [r EXCEPT !.Authorization.SignedHeaders = x] :
                        x \in OtherSignedHeaderTexts(s) }
               \cup { [r EXCEPT !.Authorization.Signature = ForgedSignature(s)] }
               \cup { WithDateHeaders(r, v) : v \in DateHeaderValues(s) }
          ELSE { [r EXCEPT !.Query = Put(r.Query, QCredential, <<c>>)] :
                   c \in OtherCredentials(s) }
               \cup { [r EXCEPT !.Query = Put(r.Query, QSignedHeaders, <<x>>)] :
                        x \in OtherSignedHeaderTexts(s) }
               \cup { [r EXCEPT !.QuerySig = ForgedSignature(s)] }
               \cup { [r EXCEPT !.Query = Put(r.Query, QDate, <<x>>)] :
                        x \in { FormatISO8601(s.signTime + 1),
                                FormatDate(s.signTime) \o <<84>> \o Itoa(s.signTime % DayLen) \o <<46, 48, 90>>,
                                <<122, 122>> } }
               \cup { [r EXCEPT !.Query = Put(r.Query, QExpires, <<x>>)] :
                        x \in { Itoa(s.expires + 1), <<48>> \o Itoa(s.expires) } }
               \cup { [r EXCEPT !.Query = Put(r.Query, QExpires, << Itoa(s.expires), <<57>> >>)] }
               \cup { [r EXCEPT !.Query = Put(r.Query, QContentSha256, << <<104, 49>> >>)],
                      [r EXCEPT !.Query = Put(r.Query, QContentSha256, << <<104, 48>> >>)],
                      [r EXCEPT !.Query = Without(r.Query, QContentSha256)] })

\* the requests the server receives: a signed request as sent, or changed
\* in one place after signing
Received(s) == {s.req} \cup Tampered(s)

---------------------------------------------------------------------------
(* SpecAuth: one verification call, from CephBackend.GetUser on *)

NoSignValues ==
    [ Credential |-> NoCredential, SignedHeaders |-> <<>>, Signature |-> NoSignature,
      Date |-> -1, Expires |-> -1 ]

NoCred == [AccessKey |-> <<>>, SecretKey |-> <<>>]

\* the environments of the bounds
Environments == [RGW_REGION : Regions, SERVICE : Services, globalMaxSkewTime : 0..MaxSkew]

\* no verification call: every variable of the call but env at rest
NoCall ==
    /\ now = 0
    /\ sent = <<>>
    /\ req = <<>>
    /\ pc = "idle"
    /\ outcome = "idle"
    /\ userID = ""
    /\ s3Error = "ErrNone"
    /\ signValues = NoSignValues
    /\ cred = NoCred
    /\ extractedSignedHeaders = <<>>
    /\ query = <<>>
    /\ t = -1
    /\ nowSkew = -1
    /\ nowExpiry = -1
    /\ canonicalRequest = <<>>
    /\ newSignature = NoSignature

AuthIdle ==
    /\ env = [RGW_REGION |-> GetUserRegion, SERVICE |-> <<115, 51>>, globalMaxSkewTime |-> 0]
    /\ NoCall

AuthInit ==
    /\ env \in Environments
    /\ now = 0
    /\ sent \in SignedRequests
    /\ req \in Received(sent)
    /\ pc = "GetUser"
    /\ outcome = "running"
    /\ userID = ""
    /\ s3Error = "ErrNone"
    /\ signValues = NoSignValues
    /\ cred = NoCred
    /\ extractedSignedHeaders = <<>>
    /\ query = <<>>
    /\ t = -1
    /\ nowSkew = -1
    /\ nowExpiry = -1
    /\ canonicalRequest = <<>>
    /\ newSignature = NoSignature

\* "s3Error = code; return": the named result userID keeps its value
Return(code) ==
    /\ s3Error' = code
    /\ outcome' = IF code = "ErrNone" THEN "Accepted" ELSE "Rejected"
    /\ pc' = pc

\* a run-time panic ends the call without a result
Panic ==
    /\ outcome' = "Panicked"
    /\ UNCHANGED <<pc, s3Error>>

\* CephBackend.GetUser calls ReqSignatureV4Verify(r, "us-east-1"), which
\* hands a request with an Authorization header to doesSignatureMatch and
\* one with X-Amz-Credential in its query to doesPresignedSignatureMatch
ReqSignatureV4Verify ==
    /\ pc = "GetUser" /\ outcome = "running"
    /\ pc' = IF req.Authorization.present THEN "parseSignV4" ELSE "parsePreSignV4"
    /\ UNCHANGED <<notAuth, env, now, sent, req, outcome, userID, s3Error, signValues, cred,
                   extractedSignedHeaders, query, t, nowSkew, nowExpiry,
                   canonicalRequest, newSignature>>

\* parseSignV4: the credential, the signed header list and the signature
\* of the Authorization header
parseSignV4(v4Auth, region) ==
    LET c == parseCredentialHeader(v4Auth.Credential, region)
        h == parseSignedHeader(v4Auth.SignedHeaders)
    IN IF c.err # "ErrNone" THEN [err |-> c.err, values |-> NoSignValues]
       ELSE IF h.err # "ErrNone" THEN [err |-> h.err, values |-> NoSignValues]
       ELSE [ err |-> "ErrNone",
              values |-> [ Credential |-> c.cred, SignedHeaders |-> h.names,
                           Signature |-> v4Auth.Signature, Date |-> -1, Expires |-> -1 ] ]

\* parsePreSignV4: the credential, the date, the expiry and the signed
\* header list of the query
parsePreSignV4(values, region) ==
    LET c == parseCredentialHeader(CredentialTag \o Get(values, QCredential), region)
        d == ParseISO8601(Get(values, QDate))
        e == ParseSeconds(Get(values, QExpires))
        h == parseSignedHeader(Get(values, QSignedHeaders))
    IN IF c.err # "ErrNone" THEN [err |-> c.err, values |-> NoSignValues]
       ELSE IF d < 0 THEN [err |-> "ErrMalformedDate", values |-> NoSignValues]
       ELSE IF e < 0 THEN [err |-> "ErrMalformedExpires", values |-> NoSignValues]
       ELSE IF h.err # "ErrNone" THEN [err |-> h.err, values |-> NoSignValues]
       ELSE [ err |-> "ErrNone",
              values |-> [ Credential |-> c.cred, SignedHeaders |-> h.names,
                           Signature |-> NoSignature, Date |-> d, Expires |-> e ] ]

(* doesSignatureMatch *)

HdrParse ==
    /\ pc = "parseSignV4" /\ outcome = "running"
    /\ LET p == parseSignV4(req.Authorization, GetUserRegion) IN
         IF p.err # "ErrNone"
         THEN Return(p.err) /\ UNCHANGED signValues
         ELSE /\ signValues' = p.values
              /\ pc' = "extractSignedHeaders"
              /\ UNCHANGED <<outcome, s3Error>>
    /\ UNCHANGED <<notAuth, env, now, sent, req, userID, cred, extractedSignedHeaders, query, t,
                   nowSkew, nowExpiry, canonicalRequest, newSignature>>

HdrExtract ==
    /\ pc = "extractSignedHeaders" /\ outcome = "running" /\ req.Authorization.present
    /\ LET x == extractSignedHeaders(signValues.SignedHeaders, req) IN
         IF x.err # "ErrNone"
         THEN Return(x.err) /\ UNCHANGED extractedSignedHeaders
         ELSE /\ extractedSignedHeaders' = x.headers
              /\ pc' = "getCredentials"
              /\ UNCHANGED <<outcome, s3Error>>
    /\ UNCHANGED <<notAuth, env, now, sent, req, userID, signValues, cred, query, t,
                   nowSkew, nowExpiry, canonicalRequest, newSignature>>

HdrCredentials ==
    /\ pc = "getCredentials" /\ outcome = "running" /\ req.Authorization.present
    /\ LET g == getCredentials(signValues.Credential.accessKey) IN
         IF g.panic
         THEN Panic /\ UNCHANGED <<userID, cred>>
         ELSE /\ userID' = g.userID
              /\ cred' = g.cred
              /\ IF g.err # "ErrNone"
                 THEN Return("ErrInvalidAccessKeyID")
                 ELSE pc' = "date" /\ UNCHANGED <<outcome, s3Error>>
    /\ UNCHANGED <<notAuth, env, now, sent, req, signValues, extractedSignedHeaders, query, t,
                   nowSkew, nowExpiry, canonicalRequest, newSignature>>

\* a date read that never falls back to the Date header
HeaderDateNoFallback(r) == Get(r.Header, CanonicalHeaderKey(<<120, 45, 97, 109, 122, 45, 100, 97, 116, 101>>))

\* the date the header flow reads: X-Amz-Date, or Date when that is ""
HeaderDate(r) ==
    IF Get(r.Header, CanonicalHeaderKey(<<120, 45, 97, 109, 122, 45, 100, 97, 116, 101>>)) # <<>>
    THEN Get(r.Header, CanonicalHeaderKey(<<120, 45, 97, 109, 122, 45, 100, 97, 116, 101>>))
    ELSE Get(r.Header, DateHeader)

HdrDate ==
    /\ pc = "date" /\ outcome = "running"
    /\ IF HeaderDate(req) = <<>>
       THEN Return("ErrMissingDateHeader") /\ UNCHANGED t
       ELSE IF ParseISO8601(HeaderDate(req)) < 0
       THEN Return("ErrMalformedDate") /\ UNCHANGED t
       ELSE /\ t' = ParseISO8601(HeaderDate(req))
            /\ pc' = "canonicalRequest"
            /\ UNCHANGED <<outcome, s3Error>>
    /\ UNCHANGED <<notAuth, env, now, sent, req, userID, signValues, cred, extractedSignedHeaders,
                   query, nowSkew, nowExpiry, canonicalRequest, newSignature>>

HdrCanonical ==
    /\ pc = "canonicalRequest" /\ outcome = "running" /\ req.Authorization.present
    /\ \E o1, o2 \in Orders(DOMAIN extractedSignedHeaders) :
         canonicalRequest' = getCanonicalRequest(extractedSignedHeaders, o1, o2,
                                 req.hashedPayload, Encode(req.Query), req.Path, req.Method)
    /\ pc' = "signature"
    /\ UNCHANGED <<notAuth, env, now, sent, req, outcome, userID, s3Error, signValues, cred,
                   extractedSignedHeaders, query, t, nowSkew, nowExpiry, newSignature>>

\* string to sign, signing key and signature from the canonical request
ComputeSignature ==
    LET stringToSign == getStringToSign(canonicalRequest, t, credGetScope(signValues.Credential))
        signingKey == getSigningKey(cred.SecretKey, signValues.Credential.scope.date,
                                    signValues.Credential.scope.region)
    IN getSignature(signingKey, stringToSign)

HdrSignature ==
    /\ pc = "signature" /\ outcome = "running" /\ req.Authorization.present
    /\ newSignature' = ComputeSignature
    /\ pc' = "compare"
    /\ UNCHANGED <<notAuth, env, now, sent, req, outcome, userID, s3Error, signValues, cred,
                   extractedSignedHeaders, query, t, nowSkew, nowExpiry, canonicalRequest>>

HdrCompare ==
    /\ pc = "compare" /\ outcome = "running" /\ req.Authorization.present
    /\ IF ~compareSignatureV4(newSignature, signValues.Signature)
       THEN Return("ErrSignatureDoesNotMatch")
       ELSE Return("ErrNone")
    /\ UNCHANGED <<notAuth, env, now, sent, req, userID, signValues, cred, extractedSignedHeaders,
                   query, t, nowSkew, nowExpiry, canonicalRequest, newSignature>>

(* doesPresignedSignatureMatch *)

PreParse ==
    /\ pc = "parsePreSignV4" /\ outcome = "running"
    /\ LET p == parsePreSignV4(req.Query, GetUserRegion) IN
         IF p.err # "ErrNone"
         THEN Return(p.err) /\ UNCHANGED signValues
         ELSE /\ signValues' = p.values
              /\ pc' = "getCredentials"
              /\ UNCHANGED <<outcome, s3Error>>
    /\ UNCHANGED <<notAuth, env, now, sent, req, userID, cred, extractedSignedHeaders, query, t,
                   nowSkew, nowExpiry, canonicalRequest, newSignature>>

PreCredentials ==
    /\ pc = "getCredentials" /\ outcome = "running" /\ ~req.Authorization.present
    /\ LET g == getCredentials(signValues.Credential.accessKey) IN
         IF g.panic
         THEN Panic /\ UNCHANGED <<userID, cred>>
         ELSE /\ userID' = g.userID
              /\ cred' = g.cred
              /\ IF g.err # "ErrNone"
                 THEN Return("ErrInvalidAccessKeyID")
                 ELSE pc' = "extractSignedHeaders" /\ UNCHANGED <<outcome, s3Error>>
    /\ UNCHANGED <<notAuth, env, now, sent, req, signValues, extractedSignedHeaders, query, t,
                   nowSkew, nowExpiry, canonicalRequest, newSignature>>

PreExtract ==
    /\ pc = "extractSignedHeaders" /\ outcome = "running" /\ ~req.Authorization.present
    /\ LET x == extractSignedHeaders(signValues.SignedHeaders, req) IN
         IF x.err # "ErrNone"
         THEN Return(x.err) /\ UNCHANGED extractedSignedHeaders
         ELSE /\ extractedSignedHeaders' = x.headers
              /\ pc' = "checkSkew"
              /\ UNCHANGED <<outcome, s3Error>>
    /\ UNCHANGED <<notAuth, env, now, sent, req, userID, signValues, cred, query, t,
                   nowSkew, nowExpiry, canonicalRequest, newSignature>>

\* an expiry check that also rejects at the boundary
ExpiredInclusive(date, utcNow, expires) == utcNow - date >= expires

\* pSignValues.Date.After(UTCNow().Add(globalMaxSkewTime))
NotReadyYet(date, utcNow, skew) == date > utcNow + skew

\* UTCNow().Sub(pSignValues.Date) > pSignValues.Expires
Expired(date, utcNow, expires) == utcNow - date > expires

\* UTCNow() returns a time not before the one it returned last
PreCheckSkew ==
    /\ pc = "checkSkew" /\ outcome = "running"
    /\ \E n \in now..MaxNow :
         /\ now' = n
         /\ nowSkew' = n
         /\ IF NotReadyYet(signValues.Date, n, env.globalMaxSkewTime)
            THEN Return("ErrRequestNotReadyYet")
            ELSE pc' = "checkExpiry" /\ UNCHANGED <<outcome, s3Error>>
    /\ UNCHANGED <<notAuth, env, sent, req, userID, signValues, cred, extractedSignedHeaders, query,
                   t, nowExpiry, canonicalRequest, newSignature>>

PreCheckExpiry ==
    /\ pc = "checkExpiry" /\ outcome = "running"
    /\ \E n \in now..MaxNow :
         /\ now' = n
         /\ nowExpiry' = n
         /\ IF Expired(signValues.Date, n, signValues.Expires)
            THEN Return("ErrExpiredPresignRequest") /\ UNCHANGED t
            ELSE /\ t' = signValues.Date
                 /\ pc' = "checkQuery"
                 /\ UNCHANGED <<outcome, s3Error>>
    /\ UNCHANGED <<notAuth, env, sent, req, userID, signValues, cred, extractedSignedHeaders, query,
                   nowSkew, canonicalRequest, newSignature>>

\* "x-amz"
XAmzPrefix == <<120, 45, 97, 109, 122>>

\* the query doesPresignedSignatureMatch constructs; order is the order of
\* the range over the signed headers
ConstructQuery(r, order) ==
    LET q0 == IF Get(r.Query, QContentSha256) # <<>>
              THEN Set(<<>>, QContentSha256, r.hashedPayload) ELSE <<>>
        q1 == Set(q0, QAlgorithm, signV4Algorithm)
        expireSeconds == signValues.Expires
        q2 == Set(q1, QDate, FormatISO8601(t))
        q3 == Set(q2, QExpires, Itoa(expireSeconds))
        q4 == Set(q3, QSignedHeaders, getSignedHeaders(extractedSignedHeaders, order))
        q5 == Set(q4, QCredential,
                  cred.AccessKey \o <<47>> \o getScope(t, signValues.Credential.scope.region))
        others == { k \in DOMAIN r.Query : ~HasPrefix(ToLower(k), XAmzPrefix) }
    IN [k \in DOMAIN q5 \cup others |-> IF k \in others THEN r.Query[k] ELSE q5[k]]

\* a comparison of the queries that leaves X-Amz-Expires out
QueryMismatchNoExpires(r, q) ==
    IF Get(r.Query, QDate) # Get(q, QDate) THEN "ErrSignatureDoesNotMatch"
    ELSE IF Get(r.Query, QSignedHeaders) # Get(q, QSignedHeaders) THEN "ErrSignatureDoesNotMatch"
    ELSE IF Get(r.Query, QCredential) # Get(q, QCredential) THEN "ErrSignatureDoesNotMatch"
    ELSE IF Get(r.Query, QContentSha256) # <<>>
            /\ Get(r.Query, QContentSha256) # Get(q, QContentSha256)
    THEN "ErrContentSHA256Mismatch"
    ELSE "ErrNone"

\* the first of the five comparisons of the received query with the
\* constructed one that fails, as an error code
QueryMismatch(r, q) ==
    IF Get(r.Query, QDate) # Get(q, QDate) THEN "ErrSignatureDoesNotMatch"
    ELSE IF Get(r.Query, QExpires) # Get(q, QExpires) THEN "ErrSignatureDoesNotMatch"
    ELSE IF Get(r.Query, QSignedHeaders) # Get(q, QSignedHeaders) THEN "ErrSignatureDoesNotMatch"
    ELSE IF Get(r.Query, QCredential) # Get(q, QCredential) THEN "ErrSignatureDoesNotMatch"
    ELSE IF Get(r.Query, QContentSha256) # <<>>
            /\ Get(r.Query, QContentSha256) # Get(q, QContentSha256)
    THEN "ErrContentSHA256Mismatch"
    ELSE "ErrNone"

PreCheckQuery ==
    /\ pc = "checkQuery" /\ outcome = "running"
    /\ \E o \in Orders(DOMAIN extractedSignedHeaders) :
         /\ query' = ConstructQuery(req, o)
         /\ IF QueryMismatch(req, query') # "ErrNone"
            THEN Return(QueryMismatch(req, query'))
            ELSE pc' = "canonicalRequest" /\ UNCHANGED <<outcome, s3Error>>
    /\ UNCHANGED <<notAuth, env, now, sent, req, userID, signValues, cred, extractedSignedHeaders,
                   t, nowSkew, nowExpiry, canonicalRequest, newSignature>>

PreCanonical ==
    /\ pc = "canonicalRequest" /\ outcome = "running" /\ ~req.Authorization.present
    /\ \E o1, o2 \in Orders(DOMAIN extractedSignedHeaders) :
         canonicalRequest' = getCanonicalRequest(extractedSignedHeaders, o1, o2,
                                 req.hashedPayload, Encode(query), req.Path, req.Method)
    /\ pc' = "signature"
    /\ UNCHANGED <<notAuth, env, now, sent, req, outcome, userID, s3Error, signValues, cred,
                   extractedSignedHeaders, query, t, nowSkew, nowExpiry, newSignature>>

PreSignature ==
    /\ pc = "signature" /\ outcome = "running" /\ ~req.Authorization.present
    /\ newSignature' = ComputeSignature
    /\ pc' = "compare"
    /\ UNCHANGED <<notAuth, env, now, sent, req, outcome, userID, s3Error, signValues, cred,
                   extractedSignedHeaders, query, t, nowSkew, nowExpiry, canonicalRequest>>

PreCompare ==
    /\ pc = "compare" /\ outcome = "running" /\ ~req.Authorization.present
    /\ IF ~compareSignatureV4(req.QuerySig, newSignature)
       THEN Return("ErrSignatureDoesNotMatch")
       ELSE Return("ErrNone")
    /\ UNCHANGED <<notAuth, env, now, sent, req, userID, signValues, cred, extractedSignedHeaders,
                   query, t, nowSkew, nowExpiry, canonicalRequest, newSignature>>

AuthNext ==
    \/ ReqSignatureV4Verify
    \/ HdrParse \/ HdrExtract \/ HdrCredentials \/ HdrDate \/ HdrCanonical
    \/ HdrSignature \/ HdrCompare
    \/ PreParse \/ PreCredentials \/ PreExtract \/ PreCheckSkew \/ PreCheckExpiry
    \/ PreCheckQuery \/ PreCanonical \/ PreSignature \/ PreCompare

---------------------------------------------------------------------------
(* SpecPolicy: one call of doesPolicySignatureMatch on a POST form *)

\* globalServerConfig: the credential and the region of the server
globalServerConfig ==
    [ Credential |-> [AccessKey |-> AK1, SecretKey |-> Users[AK1].SecretKey],
      Region |-> GetUserRegion ]

\* the signature of a form that carries none
NoPolicySignature == getSignature(SigningKeyFor(<<>>, <<>>, <<>>, <<>>), <<>>)

\* "pol", the policy document a client signs, and "pom", another
PolicyText == <<112, 111, 108>>
OtherPolicyText == <<112, 111, 109>>

\* the signature a client computes over a policy under a scope
PolicySignature(secretKey, date, region, service, policy) ==
    getSignature(SigningKeyFor(secretKey, date, region, service), policy)

\* the X-Amz-Credential texts of a form: none, the server's key under
\* each region and service, another day, another key, four segments
PolicyCredentials ==
    { <<>>,
      CredentialText(AK2, FormatDate(1), GetUserRegion, <<115, 51>>),
      CredentialText(AK1, FormatDate(1 + DayLen), GetUserRegion, <<115, 51>>),
      Join(<<AK1, FormatDate(1), GetUserRegion, Aws4Request>>, <<47>>) }
    \cup { CredentialText(AK1, FormatDate(1), rg, sv) : rg \in Regions, sv \in Services }

\* the forms: hasSignature tells whether the form has a Signature field;
\* the other fields hold what formValues.Get returns, X-Amz-Signature
\* being absent, or signed by a client with the secret of AK1 or of AK2
\* under day 0, a region and a service
PolicyForms ==
    { [ hasSignature |-> hs, XAmzSignature |-> sg, XAmzCredential |-> c, Policy |-> p ] :
        hs \in BOOLEAN,
        sg \in {NoPolicySignature}
               \cup { PolicySignature(Users[k].SecretKey, FormatDate(1), rg, sv, PolicyText) :
                        k \in {AK1, AK2}, rg \in Regions, sv \in Services },
        c \in PolicyCredentials,
        p \in {PolicyText, OtherPolicyText} }

\* the V4 policy flow without the comparison of the access keys
doesPolicySignatureV4MatchAnyKey(form) ==
    LET credential == globalServerConfig.Credential
        region == globalServerConfig.Region
        credHeader == parseCredentialHeader(CredentialTag \o form.XAmzCredential, region)
    IN IF credHeader.err # "ErrNone" THEN "ErrMissingFields"
       ELSE LET signingKey == getSigningKey(credential.SecretKey, credHeader.cred.scope.date,
                                            credHeader.cred.scope.region)
                signature == getSignature(signingKey, form.Policy)
            IN IF ~compareSignatureV4(signature, form.XAmzSignature)
               THEN "ErrSignatureDoesNotMatch"
               ELSE "ErrNone"

\* doesPolicySignatureV4Match
doesPolicySignatureV4Match(form) ==
    LET credential == globalServerConfig.Credential
        region == globalServerConfig.Region
        credHeader == parseCredentialHeader(CredentialTag \o form.XAmzCredential, region)
    IN IF credHeader.err # "ErrNone" THEN "ErrMissingFields"
       ELSE IF credHeader.cred.accessKey # credential.AccessKey THEN "ErrInvalidAccessKeyID"
       ELSE LET signingKey == getSigningKey(credential.SecretKey, credHeader.cred.scope.date,
                                            credHeader.cred.scope.region)
                signature == getSignature(signingKey, form.Policy)
            IN IF ~compareSignatureV4(signature, form.XAmzSignature)
               THEN "ErrSignatureDoesNotMatch"
               ELSE "ErrNone"

\* the codes doesPolicySignatureV2Match may return
PolicyV2Codes == {"ErrNone", "ErrMissingFields", "ErrInvalidAccessKeyID",
                  "ErrSignatureDoesNotMatch"}

PolicyInit ==
    /\ env \in Environments
    /\ formValues \in PolicyForms
    /\ polRoute = "none"
    /\ polErr = "none"
    /\ polpc = "called"

\* doesPolicySignatureMatch: a form with a Signature field goes to the V2
\* flow, every other form to the V4 flow
doesPolicySignatureMatch ==
    /\ polpc = "called"
    /\ IF formValues.hasSignature
       THEN /\ polRoute' = "V2"
            /\ polErr' \in PolicyV2Codes
       ELSE /\ polRoute' = "V4"
            /\ polErr' = doesPolicySignatureV4Match(formValues)
    /\ polpc' = "done"
    /\ UNCHANGED <<notPolicy, formValues>>

PolicyNext == doesPolicySignatureMatch

---------------------------------------------------------------------------
(* SpecExport: concurrent calls of HandleNfsExport on the export list *)

NProcs == 2
NUsers == 2
MaxCalls == 2

\* the goroutines that handle requests
Procs == 1..NProcs

\* the users, by number; an entry of the export list is makeExport of
\* makeExportObjName of a user, all entries taken to be of one length, and
\* 0 stands for a stretch of that length of zero bytes
ExportUsers == 1..NUsers
ZeroBytes == 0

\* the two lock names of the export list object
AddLockName == "export_add_lock"
RemoveLockName == "export_remove_lock"

\* the positions of a call
AddSteps == {"createNfsExportObj", "addLock", "append", "addUnlock"}
RemoveSteps == {"removeLock", "stat", "read", "writeFull", "removeUnlock",
                "removeNfsExportObj"}

\* a goroutine between two calls
IdleProc(left) ==
    [ pc |-> "idle", uid |-> 0, size |-> 0, data |-> <<>>, left |-> left,
      result |-> "none" ]

\* ioctx.LockExclusive: the lock is taken if no client holds it; if one
\* does the call returns -EBUSY at once
LockExclusive(l, name, p) == IF l[name] = 0 THEN [l EXCEPT ![name] = p] ELSE l

\* ioctx.Unlock: the lock is released if the caller holds it
Unlock(l, name, p) == IF l[name] = p THEN [l EXCEPT ![name] = 0] ELSE l

\* ioctx.Read into a buffer of size entries from offset 0: what the object
\* holds, and zero bytes where it holds less
Read(content, size) ==
    [i \in 1..size |-> IF i <= Len(content) THEN content[i] ELSE ZeroBytes]

\* strings.Replace(data, target, "", 1): the first occurrence removed
ReplaceFirst(data, target) ==
    IF \E i \in 1..Len(data) : data[i] = target
    THEN LET first == CHOOSE i \in 1..Len(data) :
                         data[i] = target /\ \A j \in 1..(i - 1) : data[j] # target
         IN SubSeq(data, 1, first - 1) \o SubSeq(data, first + 1, Len(data))
    ELSE data

\* the lists an earlier run leaves: the entries of some users, each once
InitialLists ==
    { Ascending(S) : S \in SUBSET ExportUsers }

ExportInit ==
    /\ exportList \in InitialLists
    /\ exportObjs = { exportList[i] : i \in 1..Len(exportList) }
    /\ expected = { exportList[i] : i \in 1..Len(exportList) }
    /\ locks = [n \in {AddLockName, RemoveLockName} |-> 0]
    /\ procs = [p \in Procs |-> IdleProc(MaxCalls)]

\* the end of a call, by return or by panic
EndCall(p, result) ==
    procs' = [procs EXCEPT ![p] = [IdleProc(procs[p].left) EXCEPT !.result = result]]

\* the users of the calls in progress
ActiveUsers == { procs[p].uid : p \in { q \in Procs : procs[q].pc # "idle" } }

\* HandleNfsExport up to the first RADOS operation: a request with a
\* subuser, key, quota or caps parameter is left alone; a PUT goes to
\* addNfsExport, which returns for a body with more than one key and
\* panics in createNfsExportObj for one with none; a DELETE goes to
\* removeNfsExport, and panics without a uid parameter; any other method
\* is left alone. Calls in progress together are for different users.
HandleNfsExport(p) ==
    /\ procs[p].pc = "idle" /\ procs[p].left > 0
    /\ \E method \in {"PUT", "DELETE", "POST"}, uid \in ExportUsers \ ActiveUsers,
          other \in BOOLEAN, keys \in 0..2, hasUid \in BOOLEAN :
         LET next == [procs[p] EXCEPT !.left = @ - 1, !.result = "none"] IN
         IF other \/ method = "POST"
         THEN procs' = [procs EXCEPT ![p] = [next EXCEPT !.result = "returned"]]
         ELSE IF method = "PUT"
         THEN IF keys > 1
              THEN procs' = [procs EXCEPT ![p] = [next EXCEPT !.result = "returned"]]
              ELSE IF keys = 0
              THEN procs' = [procs EXCEPT ![p] = [next EXCEPT !.result = "panicked"]]
              ELSE procs' = [procs EXCEPT ![p] =
                                [next EXCEPT !.pc = "createNfsExportObj", !.uid = uid]]
         ELSE IF ~hasUid
              THEN procs' = [procs EXCEPT ![p] = [next EXCEPT !.result = "panicked"]]
              ELSE procs' = [procs EXCEPT ![p] =
                                [next EXCEPT !.pc = "removeLock", !.uid = uid]]
    /\ UNCHANGED <<notExport, exportList, exportObjs, locks, expected>>

\* createNfsExportObj: WriteFull of the export object of the user
createNfsExportObj(p) ==
    /\ procs[p].pc = "createNfsExportObj"
    /\ exportObjs' = exportObjs \cup {procs[p].uid}
    /\ procs' = [procs EXCEPT ![p].pc = "addLock"]
    /\ UNCHANGED <<notExport, exportList, locks, expected>>

\* addExportPathToList: LockExclusive, its result dropped
AddLock(p) ==
    /\ procs[p].pc = "addLock"
    /\ locks' = LockExclusive(locks, AddLockName, p)
    /\ procs' = [procs EXCEPT ![p].pc = "append"]
    /\ UNCHANGED <<notExport, exportList, exportObjs, expected>>

\* addExportPathToList: Append
AddAppend(p) ==
    /\ procs[p].pc = "append"
    /\ exportList' = Append(exportList, procs[p].uid)
    /\ procs' = [procs EXCEPT ![p].pc = "addUnlock"]
    /\ UNCHANGED <<notExport, exportObjs, locks, expected>>

\* addExportPathToList: Unlock; addNfsExport returns
AddUnlock(p) ==
    /\ procs[p].pc = "addUnlock"
    /\ locks' = Unlock(locks, AddLockName, p)
    /\ expected' = expected \cup {procs[p].uid}
    /\ EndCall(p, "returned")
    /\ UNCHANGED <<notExport, exportList, exportObjs>>

\* removeExportPathToList: LockExclusive, its result dropped
RemoveLock(p) ==
    /\ procs[p].pc = "removeLock"
    /\ locks' = LockExclusive(locks, RemoveLockName, p)
    /\ procs' = [procs EXCEPT ![p].pc = "stat"]
    /\ UNCHANGED <<notExport, exportList, exportObjs, expected>>

\* removeExportPathToList: Stat
RemoveStat(p) ==
    /\ procs[p].pc = "stat"
    /\ procs' = [procs EXCEPT ![p].size = Len(exportList), ![p].pc = "read"]
    /\ UNCHANGED <<notExport, exportList, exportObjs, locks, expected>>

\* removeExportPathToList: Read
RemoveRead(p) ==
    /\ procs[p].pc = "read"
    /\ procs' = [procs EXCEPT ![p].data = Read(exportList, procs[p].size),
                              ![p].pc = "writeFull"]
    /\ UNCHANGED <<notExport, exportList, exportObjs, locks, expected>>

\* removeExportPathToList: strings.Replace and WriteFull
RemoveWriteFull(p) ==
    /\ procs[p].pc = "writeFull"
    /\ exportList' = ReplaceFirst(procs[p].data, procs[p].uid)
    /\ procs' = [procs EXCEPT ![p].pc = "removeUnlock"]
    /\ UNCHANGED <<notExport, exportObjs, locks, expected>>

\* removeExportPathToList: Unlock
RemoveUnlock(p) ==
    /\ procs[p].pc = "removeUnlock"
    /\ locks' = Unlock(locks, RemoveLockName, p)
    /\ procs' = [procs EXCEPT ![p].pc = "removeNfsExportObj"]
    /\ UNCHANGED <<notExport, exportList, exportObjs, expected>>

\* removeNfsExportObj: Delete of the export object; removeNfsExport returns
removeNfsExportObj(p) ==
    /\ procs[p].pc = "removeNfsExportObj"
    /\ exportObjs' = exportObjs \ {procs[p].uid}
    /\ expected' = expected \ {procs[p].uid}
    /\ EndCall(p, "returned")
    /\ UNCHANGED <<notExport, exportList, locks>>

ExportNext ==
    \E p \in Procs :
        \/ HandleNfsExport(p)
        \/ createNfsExportObj(p)
        \/ AddLock(p) \/ AddAppend(p) \/ AddUnlock(p)
        \/ RemoveLock(p) \/ RemoveStat(p) \/ RemoveRead(p) \/ RemoveWriteFull(p)
        \/ RemoveUnlock(p)
        \/ removeNfsExportObj(p)

\* HandleNfsExport called when no other call is in progress: the requests
\* handled one after the other
HandleNfsExportInTurn(p) ==
    /\ \A q \in Procs : procs[q].pc = "idle"
    /\ HandleNfsExport(p)

\* a sequence of HandleNfsExport calls, each run to its end before the next
ExportSeqNext ==
    \E p \in Procs :
        \/ HandleNfsExportInTurn(p)
        \/ createNfsExportObj(p)
        \/ AddLock(p) \/ AddAppend(p) \/ AddUnlock(p)
        \/ RemoveLock(p) \/ RemoveStat(p) \/ RemoveRead(p) \/ RemoveWriteFull(p)
        \/ RemoveUnlock(p)
        \/ removeNfsExportObj(p)

---------------------------------------------------------------------------
(* The specifications: each runs one part and leaves the others at rest *)

CanonIdle == cIn = <<>> /\ cOut = <<>> /\ cpc = "idle"

PolicyIdle ==
    /\ formValues = <<>> /\ polRoute = "none" /\ polErr = "none" /\ polpc = "idle"

ExportIdle ==
    /\ exportList = <<>> /\ exportObjs = {} /\ expected = {}
    /\ locks = [n \in {AddLockName, RemoveLockName} |-> 0]
    /\ procs = [p \in Procs |-> IdleProc(0)]

InitAuth == AuthInit /\ CanonIdle /\ PolicyIdle /\ ExportIdle

SpecAuth == InitAuth /\ [][AuthNext]_vars

InitCanon == CanonInit /\ AuthIdle /\ PolicyIdle /\ ExportIdle

SpecCanon == InitCanon /\ [][CanonNext]_vars

InitPolicy == PolicyInit /\ NoCall /\ CanonIdle /\ ExportIdle

SpecPolicy == InitPolicy /\ [][PolicyNext]_vars

InitExport == ExportInit /\ AuthIdle /\ CanonIdle /\ PolicyIdle

SpecExport == InitExport /\ [][ExportNext]_vars

SpecExportSeq == InitExport /\ [][ExportSeqNext]_vars

---------------------------------------------------------------------------
(* The header flow and the presigned flow: claims checked under SpecAuth *)

\* the call runs doesPresignedSignatureMatch
InPresigned == ~req.Authorization.present

\* the call runs doesSignatureMatch
InHeader == req.Authorization.present

\* the call has returned
Returned == outcome \in {"Accepted", "Rejected"}

\* the call has ended, by a return or by a panic
Ended == outcome # "running"

\* the steps after the two time checks of the presigned flow
AfterTimeWindow == {"checkQuery", "canonicalRequest", "signature", "compare"}

\* the steps after the comparison of the queries, and after the date step
\* of the header flow
AfterChecks == {"canonicalRequest", "signature", "compare"}

\* the access key the request claims, once parsed
ClaimedKey == signValues.Credential.accessKey

\* C1: in the presigned flow, with T the signing time of X-Amz-Date, E the
\* expiry of X-Amz-Expires, S the skew tolerance and the clock read at
\* each of the two checks: the call is rejected with RequestNotReadyYet
\* exactly when T > now + S, with ExpiredPresignRequest exactly when
\* now - T > E, and goes on past the time window exactly when
\* T <= now + S and now - T <= E, both boundaries included.
C1_TimeWindow ==
    (InPresigned /\ nowSkew >= 0) =>
        LET T == ParseISO8601(Get(req.Query, QDate))
            E == ParseSeconds(Get(req.Query, QExpires))
            S == env.globalMaxSkewTime
        IN /\ (T > nowSkew + S) <=>
                (pc = "checkSkew" /\ outcome = "Rejected"
                 /\ s3Error = "ErrRequestNotReadyYet")
           /\ nowExpiry >= 0 =>
                ((nowExpiry - T > E) <=>
                    (pc = "checkExpiry" /\ outcome = "Rejected"
                     /\ s3Error = "ErrExpiredPresignRequest"))
           /\ (pc \in AfterTimeWindow) <=>
                (nowExpiry >= 0 /\ T <= nowSkew + S /\ nowExpiry - T <= E)

\* a presigned request accepted on both boundaries: T = now + S at the
\* skew check, with S > 0, and now - T = E at the expiry check, with E > 0
C1_AcceptedOnBothBoundaries ==
    /\ InPresigned /\ outcome = "Accepted"
    /\ env.globalMaxSkewTime > 0 /\ signValues.Expires > 0
    /\ signValues.Date = nowSkew + env.globalMaxSkewTime
    /\ nowExpiry - signValues.Date = signValues.Expires

\* C2: a call of either flow that comes to resolve an access key the
\* credential store does not hold ends in Rejected with InvalidAccessKeyID,
\* and in no other way.
C2_UnknownKeyRejected ==
    (Ended /\ pc = "getCredentials" /\ ClaimedKey \notin DOMAIN Users) =>
        (outcome = "Rejected" /\ s3Error = "ErrInvalidAccessKeyID")

\* C3: every call that returns either is accepted, with ErrNone and the
\* resolved identity, or is rejected, with an error code and an empty
\* identity.
C3_IdentityOnlyOnSuccess ==
    Returned =>
        \/ (outcome = "Accepted" /\ s3Error = "ErrNone" /\ userID # "")
        \/ (outcome = "Rejected" /\ s3Error # "ErrNone" /\ userID = "")

\* the presigned flow has compared the received query with the one it
\* constructed
QueryChecked ==
    InPresigned /\ ((pc = "checkQuery" /\ Ended) \/ pc \in AfterChecks)

\* the received query and the constructed one differ in X-Amz-Date,
\* X-Amz-Expires, X-Amz-SignedHeaders or X-Amz-Credential
FourDiffer ==
    \E k \in {QDate, QExpires, QSignedHeaders, QCredential} :
        Get(req.Query, k) # Get(query, k)

\* the request carries X-Amz-Content-Sha256 and the constructed query
\* holds another value for it
ShaDiffers ==
    /\ Get(req.Query, QContentSha256) # <<>>
    /\ Get(req.Query, QContentSha256) # Get(query, QContentSha256)

\* no canonical request has been built and no signature computed
NothingSigned == canonicalRequest = <<>> /\ newSignature = NoSignature

\* C4 as stated: a mismatch in any of the five is rejected with
\* SignatureDoesNotMatch before the canonical request is built.
C4_AnyMismatchIsSignatureMismatch ==
    (QueryChecked /\ (FourDiffer \/ ShaDiffers)) =>
        (pc = "checkQuery" /\ outcome = "Rejected"
         /\ s3Error = "ErrSignatureDoesNotMatch" /\ NothingSigned)

\* C4, amended: after the time window, a mismatch in X-Amz-Date,
\* X-Amz-Expires, X-Amz-SignedHeaders or X-Amz-Credential is rejected with
\* SignatureDoesNotMatch; with these four equal, a mismatch of a present
\* X-Amz-Content-Sha256 is rejected with ContentSHA256Mismatch; either
\* happens before the canonical request is built and the signature
\* computed; with all five equal the call goes on to the canonical request.
C4_QueryEquality ==
    QueryChecked =>
        /\ FourDiffer =>
             (pc = "checkQuery" /\ outcome = "Rejected"
              /\ s3Error = "ErrSignatureDoesNotMatch" /\ NothingSigned)
        /\ (~FourDiffer /\ ShaDiffers) =>
             (pc = "checkQuery" /\ outcome = "Rejected"
              /\ s3Error = "ErrContentSHA256Mismatch" /\ NothingSigned)
        /\ (~FourDiffer /\ ~ShaDiffers) => pc \in AfterChecks

\* a request whose X-Amz-Content-Sha256 alone differs, rejected with
\* ContentSHA256Mismatch
C4_ShaMismatchRejected ==
    /\ QueryChecked /\ ~FourDiffer /\ ShaDiffers
    /\ outcome = "Rejected" /\ s3Error = "ErrContentSHA256Mismatch"

\* the request as sent is one the server's flow accepts: it was signed for
\* the service the server signs with, and the clock values the call read
\* are inside the time window of the request as sent
AcceptedAsSent ==
    /\ sent.service = env.SERVICE
    /\ InPresigned =>
         /\ nowSkew >= 0 /\ nowExpiry >= 0
         /\ sent.signTime <= nowSkew + env.globalMaxSkewTime
         /\ nowExpiry - sent.signTime <= sent.expires

\* the values request r carries for a header name of the signed list
ValuesOf(r, name) ==
    IF name = HostName THEN << r.Host >>
    ELSE IF CanonicalHeaderKey(name) \in DOMAIN r.Header
         THEN r.Header[CanonicalHeaderKey(name)] ELSE <<>>

\* what the signer signed of request r: the values of the signed headers,
\* the payload hash and the query parameters
SignedPart(s, r) ==
    [ headers |-> [i \in 1..Len(s.names) |-> ValuesOf(r, s.names[i])],
      payload |-> r.hashedPayload,
      query   |-> r.Query ]

\* the same in canonical form: the values of a header trimmed and joined
\* by commas, and of an X-Amz- parameter of a presigned query the first
\* value, the one the server reads
CanonicalSignedPart(s, r) ==
    [ headers |-> [i \in 1..Len(s.names) |->
                     LET v == ValuesOf(r, s.names[i])
                     IN Join([j \in 1..Len(v) |-> signV4TrimAll(v[j])], <<44>>)],
      payload |-> r.hashedPayload,
      query   |-> [k \in DOMAIN r.Query |->
                     IF s.flow = "presigned" /\ HasPrefix(ToLower(k), XAmzPrefix)
                     THEN << Get(r.Query, k) >> ELSE r.Query[k]] ]

C6_ScopeBinding ==
    outcome = "Accepted" =>
        LET claimed == signValues.Credential.scope IN
        /\ FormatDate(claimed.date) = FormatDate(sent.signTime)
        /\ claimed.region = sent.region
        /\ claimed.service = sent.service
        /\ claimed.region = env.RGW_REGION
        /\ claimed.service = env.SERVICE

\* the header flow has gone through its date step
DateChecked == InHeader /\ ((pc = "date" /\ Ended) \/ pc \in AfterChecks)

\* C8 as stated, a header being absent when the request does not carry it.
C8_DateHeaderAbsent ==
    DateChecked =>
        LET hasX == XAmzDateHeader \in DOMAIN req.Header
            hasD == DateHeader \in DOMAIN req.Header
            chosen == IF hasX THEN Get(req.Header, XAmzDateHeader)
                      ELSE Get(req.Header, DateHeader)
        IN /\ (outcome = "Rejected" /\ s3Error = "ErrMissingDateHeader")
                <=> (~hasX /\ ~hasD)
           /\ ((hasX \/ hasD) /\ ParseISO8601(chosen) < 0) =>
                (outcome = "Rejected" /\ s3Error = "ErrMalformedDate")
           /\ ((hasX \/ hasD) /\ ParseISO8601(chosen) >= 0) =>
                (pc \in AfterChecks /\ t = ParseISO8601(chosen))

\* C8, amended: in the header flow the date step comes after the access
\* key has been resolved; the timestamp is the value of X-Amz-Date, or of
\* Date when X-Amz-Date is absent or empty; the call is rejected with
\* MissingDateHeader exactly when both are absent or empty, with
\* MalformedDate when the chosen value does not parse, and otherwise goes
\* on to the signature with the parsed timestamp.
C8_DateHeader ==
    /\ (InHeader /\ (pc = "date" \/ pc \in AfterChecks)) =>
          (ClaimedKey \in DOMAIN Users /\ cred.AccessKey = ClaimedKey /\ userID # "")
    /\ DateChecked =>
        LET x == Get(req.Header, XAmzDateHeader)
            d == Get(req.Header, DateHeader)
            chosen == IF x # <<>> THEN x ELSE d
        IN /\ (outcome = "Rejected" /\ s3Error = "ErrMissingDateHeader")
                <=> (x = <<>> /\ d = <<>>)
           /\ (chosen # <<>> /\ ParseISO8601(chosen) < 0) =>
                (pc = "date" /\ outcome = "Rejected" /\ s3Error = "ErrMalformedDate")
           /\ (chosen # <<>> /\ ParseISO8601(chosen) >= 0) =>
                (pc \in AfterChecks /\ t = ParseISO8601(chosen))

\* a request with an empty X-Amz-Date, accepted with the timestamp of its
\* Date header
C8_FallbackToDate ==
    /\ InHeader /\ outcome = "Accepted"
    /\ XAmzDateHeader \in DOMAIN req.Header
    /\ Get(req.Header, XAmzDateHeader) = <<>>
    /\ t = ParseISO8601(Get(req.Header, DateHeader))

---------------------------------------------------------------------------
(* The canonical request builder: claims checked under SpecCanon *)

\* the headers of a map by lower-cased name
ByLowerName(h) ==
    [n \in {ToLower(k) : k \in DOMAIN h} |->
        h[CHOOSE k \in DOMAIN h : ToLower(k) = n]]

\* the names of a set in the one order that ascends in Go's string order
AscendingNames(S) ==
    CHOOSE o \in Orders(S) : \A i \in 1..(Len(o) - 1) : StrLess(o[i], o[i + 1])

\* one line per name, in ascending order: the name, ":", the trimmed
\* values joined by ",", a line feed
ExpectedCanonicalHeaders(l) ==
    LET o == AscendingNames(DOMAIN l)
    IN Concat([i \in 1..Len(o) |->
          o[i] \o <<58>>
               \o Join([j \in 1..Len(l[o[i]]) |-> signV4TrimAll(l[o[i]][j])], <<44>>)
               \o <<10>>])

\* C7: for a header map whose names differ in more than letter case, the
\* canonical headers, the signed header list and the canonical request
\* built from it are those of its lower-cased names in ascending order,
\* each name once with its own values, whatever the order in which the map
\* is ranged over and whatever the letter case of its names.
C7_OrderAndCaseIndependent ==
    cpc = "done" =>
        LET l == ByLowerName(cIn)
            names == AscendingNames(DOMAIN l)
        IN /\ cOut.canonicalHeaders = ExpectedCanonicalHeaders(l)
           /\ cOut.signedHeaders = Join(names, <<59>>)
           /\ cOut.canonicalRequest =
                Join(<< CanonMethod, CanonPath, CanonQuery, ExpectedCanonicalHeaders(l),
                        Join(names, <<59>>), CanonPayload >>, <<10>>)

\* a canonical request built from three headers, one of them spelled with
\* an upper-case letter
C7_ThreeHeadersMixedCase ==
    /\ cpc = "done"
    /\ Cardinality(DOMAIN cIn) = 3
    /\ \E k \in DOMAIN cIn : k # ToLower(k)
    /\ Len(cOut.canonicalRequest) > 0

---------------------------------------------------------------------------
(* The POST policy check: claims checked under SpecPolicy *)

\* the form carries an X-Amz-Signature field
CarriesXAmzSignature == formValues.XAmzSignature # NoPolicySignature

\* the credential of the form, parsed
PolicyCredential ==
    parseCredentialHeader(CredentialTag \o formValues.XAmzCredential,
                          globalServerConfig.Region)

\* the HMAC over the Policy field with the server's secret key under the
\* date and the region of the form's credential and a service
PolicyHMAC(service) ==
    PolicySignature(globalServerConfig.Credential.SecretKey,
                    FormatDate(PolicyCredential.cred.scope.date),
                    PolicyCredential.cred.scope.region, service, formValues.Policy)

---------------------------------------------------------------------------
(* The export list: claims checked under SpecExport *)

\* no call is in progress
Quiescent == \A p \in Procs : procs[p].pc = "idle"

\* the export list holds an entry of user u
Listed(u) == \E i \in 1..Len(exportList) : exportList[i] = u

\* C10: once the concurrent calls, each for another user, have returned,
\* the export list holds the entry of every user that was added and not
\* removed: no update is lost.
C10_NoLostUpdate == Quiescent => \A u \in expected : Listed(u)

---------------------------------------------------------------------------
(* The export list under a sequence of calls: claims checked under
   SpecExportSeq *)

\* the entries of a list that are not of user u, in their order
EntriesOfOthers(list, u) == SelectSeq(list, LAMBDA e : e # u)

\* the step in which the DELETE call of goroutine p returns
DeleteReturns(p) == procs[p].pc = "removeNfsExportObj" /\ procs'[p].pc = "idle"

\* the step in which goroutine p takes a request and returns at once, as it
\* does for a request with a subuser, key, quota or caps parameter
ReturnsAtOnce(p) ==
    procs[p].pc = "idle" /\ procs'[p].pc = "idle" /\ procs'[p].result = "returned"
    /\ procs'[p].left < procs[p].left

\* C11: in a sequence of HandleNfsExport calls, when a DELETE for user u
\* returns the export list holds no entry of u and the export object of u
\* does not exist, whatever PUT requests for u came before, and the entries
\* of the other users are as the DELETE found them; a request that is left
\* alone changes neither the list nor any export object.
C11_DeleteRemovesUser ==
    [][\A p \in Procs :
          /\ DeleteReturns(p) =>
                /\ \A i \in 1..Len(exportList') : exportList'[i] # procs[p].uid
                /\ procs[p].uid \notin exportObjs'
                /\ EntriesOfOthers(exportList', procs[p].uid)
                      = EntriesOfOthers(procs[p].data, procs[p].uid)
          /\ ReturnsAtOnce(p) => exportList' = exportList /\ exportObjs' = exportObjs
      ]_vars

=============================================================================
